---- MODULE Spec2Model ----
(***************************************************************************)
(* A model of the crawl-and-ingest engine of combi (src/src/main.rs):      *)
(* the scheduler loop of main, the visit Scraper::scrape with its retrying *)
(* Scraper::get_page, and the transactional insert_record, over a store    *)
(* with Postgres' INSERT ... ON CONFLICT DO NOTHING semantics.             *)
(***************************************************************************)
EXTENDS Bags, FiniteSets, Integers, Sequences, TLC

VARIABLES
    db,        \* committed rows of every table: table name -> bag of rows
    tx,        \* per task: the uncommitted rows of its open transaction
    task,      \* per task: the locals of one Scraper::scrape future
    main_pc,   \* position of main
    id,        \* the loop variable of main's `for id in 1..=307433`
    tasks,     \* main's vector of join handles, in push order
    run,       \* number of the current crawl run (process start)
    origin,    \* history: how each mathematicians row first got committed
    known,     \* history: identifiers whose node existed when main considered
               \* them in the current run
    abandoned, \* history: identifiers whose visit returned Err in an earlier run
    extraction, \* the document parser::scrape was last applied to, and its result
    pool       \* the tasks that hold a connection of the pool

vars == <<db, tx, task, main_pc, id, tasks, run, origin, known, abandoned, extraction,
          pool>>

----------------------------------------------------------------------------
(* Bounds *)

\* the range main enumerates is 1..=MaxId (307433 in the source)
MaxId == 2
\* how many times the process is started against the same database
MaxRuns == 2

(* Program constants *)

\* `let mut retry = 3;`
MaxRetry == 3

\* the identifiers main enumerates, one task each, and the identifiers of the
\* site, the last two of which are only ever met as students
Tasks == 1 .. MaxId
Ids == 1 .. MaxId + 2

----------------------------------------------------------------------------
(* Option<T> *)

None == <<>>
Some(x) == <<x>>
Unwrap(o) == o[1]

----------------------------------------------------------------------------
(* parser::ScrapeRecord as main.rs reads it, and the documents of the site *)

Stub(name, sid) == [name |-> name, id |-> sid]

ScrapeRecord(name, students, dissertation, school, country, year) ==
    [name |-> name, students |-> students, dissertation |-> dissertation,
     school |-> school, country |-> country, year |-> year]

NoRecord == ScrapeRecord(<<"none", 0>>, <<>>, None, None, None, None)

\* what parser::scrape yields for the page id.php?id=i of the site: 1 is the
\* spec's "Jane Doe" with every field, 2 has a school and lists 3, and the
\* others have a name and nothing else
Page(i) ==
    IF i = 1
    THEN ScrapeRecord(<<"page", 1>>,
                      <<Stub(<<"stub", 2>>, Some(2)), Stub(<<"stub", 0>>, None)>>,
                      Some("On Widgets"), Some("Test University"),
                      Some("Testland"), Some(1990))
    ELSE IF i = 2
    THEN ScrapeRecord(<<"page", 2>>,
                      <<Stub(<<"stub", 3>>, Some(3))>>,
                      None, Some("Test University"), None, None)
    ELSE ScrapeRecord(<<"page", i>>, <<>>, None, None, None, None)

\* outcomes of one `client.get(url).send().await?.text().await?`: no answer
\* in time, no connection, an answer with a non-success status, and the
\* page asked for, which has a name or has none
TransportResults ==
    {"timeout", "connection_error", "status_error", "document", "nameless_document"}

\* the inner get_page: `send()` and `text()` return Err when the request or
\* the reading of the body fails; the status of an answer is not looked at,
\* so the body of an error answer is returned like any other.  The site's
\* error page has no h2.
Transport(res) ==
    IF res \in {"timeout", "connection_error"}
    THEN [kind |-> "err", value |-> res]
    ELSE [kind |-> "ok",
          value |-> IF res = "status_error" THEN "nameless_document" ELSE res]

----------------------------------------------------------------------------
(* parser.rs.  A document is described by what the selectors of parser.rs  *)
(* find in it; a text node is the sequence of its words and blanks.        *)

Blank == " "

\* `.trim()`
RECURSIVE TrimStart(_)
TrimStart(node) ==
    IF node # <<>> /\ Head(node) = Blank THEN TrimStart(Tail(node)) ELSE node

RECURSIVE TrimEnd(_)
TrimEnd(node) ==
    IF node # <<>> /\ node[Len(node)] = Blank
    THEN TrimEnd(SubSeq(node, 1, Len(node) - 1))
    ELSE node

Trim(node) == TrimEnd(TrimStart(node))

\* `.split_whitespace().collect::<Vec<_>>().join(" ")`: the words, one blank
\* between two of them
RECURSIVE JoinWords(_)
JoinWords(words) ==
    IF Len(words) <= 1 THEN words
    ELSE <<Head(words), Blank>> \o JoinWords(Tail(words))

SplitJoin(node) == JoinWords(SelectSeq(node, LAMBDA w : w # Blank))

\* a text node of the first `div > span`, with the number it parses to as u16
SpanText(node, number) == [text |-> node, number |-> number]

\* a row of the first table: has it a cell, has the first cell an anchor, has
\* the anchor an href, and the id the href carries
Row(cell, anchor, href, sid) == [cell |-> cell, anchor |-> anchor, href |-> href, id |-> sid]

\* h2: the text nodes of the first h2; thesis: those of #thesisTitle; table:
\* the rows of the first table; span: the text nodes of the first div > span;
\* img: the alt attribute of the first div > img.  None: no such element.
Html(h2, thesis, table, span, img) ==
    [h2 |-> h2, thesis |-> thesis, table |-> table, span |-> span, img |-> img]

Ok(value) == [kind |-> "ok", value |-> value]
Err(message) == [kind |-> "err", value |-> message]
\* `Option::unwrap` on None
Panic == [kind |-> "panic", value |-> "called Option::unwrap() on a None value"]

scrape_mathematician(page) ==
    IF page.h2 = None THEN Err("Name not found")
    ELSE IF Unwrap(page.h2) = <<>> THEN Err("Name not found")
    ELSE Ok([id |-> 0, name |-> SplitJoin(Trim(Head(Unwrap(page.h2))))])

scrape_dissertation(page) ==
    IF page.thesis = None THEN None
    ELSE IF Unwrap(page.thesis) = <<>> THEN None
    ELSE LET t == Trim(Head(Unwrap(page.thesis)))
         IN  IF t = <<>> THEN None ELSE Some(t)

\* the closure of `filter_map`: None drops the row, the `unwrap()` of a
\* missing anchor panics
StudentOf(row) ==
    IF ~row.cell THEN Ok(None)
    ELSE IF ~row.anchor THEN Panic
    ELSE IF ~row.href THEN Ok(None)
    ELSE Ok(row.id)

RECURSIVE FilterMapStudents(_)
FilterMapStudents(rows) ==
    IF rows = <<>> THEN Ok(<<>>)
    ELSE LET first == StudentOf(Head(rows))
             rest == FilterMapStudents(Tail(rows))
         IN  IF first.kind = "panic" THEN Panic
             ELSE IF rest.kind = "panic" THEN Panic
             ELSE IF first.value = None THEN rest
             ELSE Ok(<<Unwrap(first.value)>> \o rest.value)

scrape_students(page) ==
    IF page.table = None THEN Ok(<<>>)
    ELSE LET rows == Unwrap(page.table)
         IN  \* `let _ = students.next();`: the first row is the header
             FilterMapStudents(IF rows = <<>> THEN <<>> ELSE Tail(rows))

parse_country(page) ==
    IF page.img = None THEN None ELSE Unwrap(page.img)

\* `.skip_while(|node| node.trim() != "Ph.D.")`
RECURSIVE SkipToPhD(_)
SkipToPhD(texts) ==
    IF texts = <<>> THEN texts
    ELSE IF Trim(Head(texts).text) = <<"Ph.D.">> THEN texts
    ELSE SkipToPhD(Tail(texts))

parse_school(page) ==
    IF page.span = None THEN None
    ELSE LET after == SkipToPhD(Unwrap(page.span))
         IN  IF Len(after) < 2 THEN None
             ELSE Some([school |-> Trim(after[2].text), country |-> parse_country(page)])

parse_year(page) ==
    IF page.span = None THEN None
    ELSE LET numbers == SelectSeq(Unwrap(page.span), LAMBDA t : t.number # None)
         IN  IF numbers = <<>> THEN None ELSE Head(numbers).number

\* parser::scrape
scrape(page) ==
    LET mathematician == scrape_mathematician(page)
        dissertation_title == scrape_dissertation(page)
        student_ids == scrape_students(page)
        university == parse_school(page)
        year == parse_year(page)
    IN  IF mathematician.kind = "err" THEN mathematician
        ELSE IF student_ids.kind = "panic" THEN Panic
        ELSE Ok([mathematician |-> mathematician.value,
                 students_ids |-> student_ids.value,
                 dissertation |->
                    IF dissertation_title = None THEN None
                    ELSE Some([title |-> Unwrap(dissertation_title),
                               author |-> mathematician.value]),
                 graduation_record |->
                    IF university # None /\ year # None
                    THEN Some([mathematician |-> mathematician.value,
                               country |-> Unwrap(university).country,
                               school |-> Unwrap(university).school,
                               year |-> Unwrap(year)])
                    ELSE None])

NoExtraction ==
    [page |-> Html(None, None, None, None, None), result |-> [kind |-> "none"]]

----------------------------------------------------------------------------
(* The store *)

EmptyDb ==
    [mathematicians |-> EmptyBag, countries |-> EmptyBag,
     dissertations |-> EmptyBag, schools |-> EmptyBag,
     school_locations |-> EmptyBag, graduation_records |-> EmptyBag,
     advisor_relations |-> EmptyBag]

Tables == DOMAIN EmptyDb

\* the natural key a table's unique constraint is on
KeyOf(tbl, row) == IF tbl = "mathematicians" THEN row.id ELSE row

Rows(d, tbl) == BagToSet(d[tbl])

\* number of rows of bag B that satisfy P
CountWhere(B, P(_)) ==
    LET S == {r \in BagToSet(B) : P(r)}
    IN  IF S = {} THEN 0 ELSE BagCardinality([r \in S |-> B[r]])

AddRow(d, tbl, row) == [d EXCEPT ![tbl] = @ (+) SetToBag({row})]

Merge(d, e) == [tbl \in Tables |-> d[tbl] (+) e[tbl]]

\* a row with the key of `row` is visible to task t's statement
Conflict(t, tbl, row) ==
    \E r \in Rows(db, tbl) \cup Rows(tx[t], tbl) : KeyOf(tbl, r) = KeyOf(tbl, row)

\* another open transaction holds an uncommitted row with that key: the
\* statement waits for that transaction to end
LockedByOther(t, tbl, row) ==
    \E u \in Tasks \ {t} :
        \E r \in Rows(tx[u], tbl) : KeyOf(tbl, r) = KeyOf(tbl, row)

has_mathematician(i) ==
    CountWhere(db.mathematicians, LAMBDA r : r.id = i) = 1

\* an edge check that finds every edge
has_advisor_advisee_any(advisor, advisee) == TRUE

has_advisor_advisee(advisor, advisee) ==
    CountWhere(db.advisor_relations,
               LAMBDA r : r.advisor = advisor /\ r.advisee = advisee) = 1

----------------------------------------------------------------------------
(* The SQL statements.  A statement's result says whether it adds its row  *)
(* and whether it returns an error to the caller.                          *)

Result(tbl, row, add, err) == [tbl |-> tbl, row |-> row, add |-> add, err |-> err]

\* INSERT INTO tbl ... ON CONFLICT DO NOTHING
OnConflictDoNothing(t, tbl, row) ==
    Result(tbl, row, ~Conflict(t, tbl, row), FALSE)

\* a statement that stores no school
insert_school_skipped(t, school) == Result("schools", school, FALSE, FALSE)

insert_school(t, school) == OnConflictDoNothing(t, "schools", school)

insert_school_location(t, school, country) ==
    OnConflictDoNothing(t, "school_locations", [school |-> school, country |-> country])

insert_country(t, country) == OnConflictDoNothing(t, "countries", country)

\* a plain INSERT, which fails on a row that is already there
insert_dissertation_plain(t, title, author) ==
    LET row == [title |-> title, author |-> author]
    IN  Result("dissertations", row, ~Conflict(t, "dissertations", row),
               Conflict(t, "dissertations", row))

insert_dissertation(t, title, author) ==
    OnConflictDoNothing(t, "dissertations", [title |-> title, author |-> author])

\* an INSERT that no unique key stops
insert_adivsor_relation_unchecked(t, advisor, advisee) ==
    Result("advisor_relations", [advisor |-> advisor, advisee |-> advisee], TRUE, FALSE)

insert_adivsor_relation(t, advisor, advisee) ==
    OnConflictDoNothing(t, "advisor_relations", [advisor |-> advisor, advisee |-> advisee])

\* an INSERT that stores the row whatever the table holds
insert_mathematician_unchecked(t, i, name) ==
    Result("mathematicians", [id |-> i, name |-> name], TRUE, FALSE)

insert_mathematician(t, i, name) ==
    OnConflictDoNothing(t, "mathematicians", [id |-> i, name |-> name])

\* the INSERT INTO graduation_records of insert_grad_record
insert_grad_record(t, mathematician, school, year) ==
    OnConflictDoNothing(t, "graduation_records",
                        [mathematician |-> mathematician, school |-> school, year |-> year])

----------------------------------------------------------------------------
(* Tasks *)

IdleTask ==
    [pc |-> "idle", id |-> 0, advisor |-> NoRecord, cur |-> 0, k |-> 0,
     retry |-> 0, attempts |-> 0, waits |-> 0, response |-> "none",
     outcome |-> "none", fetched |-> {}, wrote |-> EmptyDb]

\* the positions of scrape at which a statement runs inside the transaction
TxPcs ==
    {"ir_mathematician", "ir_country", "ir_dissertation", "ir_school",
     "ir_school_location", "ir_grad_school", "ir_grad_record",
     "ir_student", "ir_relation", "ir_commit"}

\* the positions of scrape at which it awaits the database
DbPcs == {"check", "insert_self", "students", "begin"} \cup TxPcs

Finished(t) == task[t].pc = "done"

\* the visit returned Err
Failed(t) ==
    /\ Finished(t)
    /\ task[t].outcome \in {"fetch_exhausted", "extraction_failed", "db_error",
                            "ingest_failed", "duplicate_key"}

\* the visit ended Abandoned: by fetch exhaustion, extraction failure or
\* ingestion failure
Abandoned(t) ==
    /\ Finished(t)
    /\ task[t].outcome \in {"fetch_exhausted", "extraction_failed", "ingest_failed"}

Committed(t) == Finished(t) /\ task[t].outcome = "committed"

\* a loop that takes every student, with or without an id
NextStudentAny(students, c) == c

\* first index >= c of a student that has an id (the loop's `continue` on None)
RECURSIVE NextStudent(_, _)
NextStudent(students, c) ==
    IF c > Len(students) THEN c
    ELSE IF students[c].id # None THEN c
    ELSE NextStudent(students, c + 1)

\* the identifier whose page the task is fetching
Target(t) ==
    IF task[t].cur = 0 THEN task[t].id
    ELSE Unwrap(task[t].advisor.students[task[t].cur].id)

\* the locals of a future that has returned are dropped
Return(t, outcome) ==
    [task EXCEPT ![t].pc = "done", ![t].outcome = outcome,
                 ![t].cur = 0, ![t].k = 0, ![t].retry = 0]

\* `?` returns Err: the future's transaction, if it has one, is dropped, which
\* rolls it back and gives its connection back to the pool
Fail(t, outcome) ==
    /\ task' = Return(t, outcome)
    /\ tx' = [tx EXCEPT ![t] = EmptyDb]
    /\ pool' = pool \ {t}

OriginAfter(t, rows) ==
    [i \in Ids |->
        IF origin[i] = "absent" /\ \E r \in rows : r.id = i
        THEN IF i = task[t].id THEN "self" ELSE "stub"
        ELSE origin[i]]

----------------------------------------------------------------------------
(* Scraper::get_page: the retry loop.  One action per pass of the loop.    *)

\* giving up one pass early
RetriesExhaustedEarly(retry) == retry <= 1

\* `if retry == 0 { return Err(..) }`
RetriesExhausted(retry) == retry = 0

\* the students of a student taken into the visit
ExploreDeeper(advisor, student) ==
    [advisor EXCEPT !.students = @ \o student.students]

\* `advisees.push(student)`: the student's record is kept in a vector that
\* nothing reads, the visit goes on with the advisor's own record
Explore(advisor, student) == advisor

\* get_page is entered for the page of the visited id (c = 0) or of student c
EnterGetPage(t, c) ==
    [task EXCEPT ![t].pc = "get_page", ![t].cur = c,
                 ![t].retry = MaxRetry, ![t].attempts = 0, ![t].waits = 0,
                 ![t].response = "none"]

\* where scrape continues once student c - 1 is dealt with
AfterStudent(t, c) ==
    LET n == NextStudent(task[t].advisor.students, c)
    IN  [task EXCEPT ![t].pc = IF n > Len(task[t].advisor.students)
                                  THEN "begin" ELSE "students",
                     ![t].cur = n]

GetPageExhausted(t) ==
    /\ task[t].pc = "get_page"
    /\ RetriesExhausted(task[t].retry)
    /\ Fail(t, "fetch_exhausted")
    /\ UNCHANGED <<db, main_pc, id, tasks, run, origin, known, abandoned, extraction>>

\* the attempt returns Err: `sleep(wait_duration).await; retry -= 1;`, loop
GetPageRetry(t) ==
    /\ task[t].pc = "get_page"
    /\ ~RetriesExhausted(task[t].retry)
    /\ {res \in TransportResults : Transport(res).kind = "err"} # {}
    /\ task' = [task EXCEPT ![t].attempts = @ + 1, ![t].waits = @ + 1,
                            ![t].retry = @ - 1]
    /\ UNCHANGED <<db, tx, main_pc, id, tasks, run, origin, known, abandoned, extraction, pool>>

\* the transport returns a body: `break page`, then parser::scrape of it
GetPageOk(t) ==
    /\ task[t].pc = "get_page"
    /\ ~RetriesExhausted(task[t].retry)
    /\ \E res \in {r \in TransportResults : Transport(r).kind = "ok"} :
          IF Transport(res).value = "nameless_document"
          THEN /\ task' = [Return(t, "extraction_failed") EXCEPT
                                       ![t].attempts = 0, ![t].waits = 0,
                                       ![t].response = res,
                                       ![t].fetched = @ \cup {Target(t)}]
               /\ tx' = tx
          ELSE /\ task' =
                    IF task[t].cur = 0
                    THEN [task EXCEPT ![t].pc = "insert_self",
                                      ![t].advisor = Page(task[t].id),
                                      ![t].attempts = @ + 1,
                                      ![t].fetched = @ \cup {Target(t)}]
                    ELSE [AfterStudent(t, task[t].cur + 1) EXCEPT
                                      ![t].advisor = Explore(@, Page(Target(t))),
                                      ![t].attempts = 0, ![t].waits = 0,
                                      ![t].retry = 0,
                                      ![t].fetched = @ \cup {Target(t)}]
               /\ tx' = tx
    /\ UNCHANGED <<db, main_pc, id, tasks, run, origin, known, abandoned, extraction, pool>>

----------------------------------------------------------------------------
(* Scraper::scrape up to the transaction *)

\* `if has_mathematician(&*self.db_pool, id).await? { return Ok(()); }`
ScrapeCheck(t) ==
    /\ task[t].pc = "check"
    /\ task' = IF has_mathematician(task[t].id)
               THEN Return(t, "known")
               ELSE EnterGetPage(t, 0)
    /\ pool' = pool \ {t}
    /\ UNCHANGED <<db, tx, main_pc, id, tasks, run, origin, known, abandoned, extraction>>

\* `insert_mathematician(&*self.db_pool, id, &advisor.name).await?`: a
\* statement on a pool connection, committed when it returns
ScrapeInsertSelf(t) ==
    /\ task[t].pc = "insert_self"
    /\ LET st == insert_mathematician(t, task[t].id, task[t].advisor.name)
       IN  /\ ~LockedByOther(t, st.tbl, st.row)
           /\ IF st.err
              THEN /\ Fail(t, "duplicate_key")
                   /\ UNCHANGED <<db, origin>>
              ELSE /\ db' = IF st.add THEN AddRow(db, st.tbl, st.row) ELSE db
                   /\ origin' = IF st.add THEN OriginAfter(t, {st.row}) ELSE origin
                   /\ task' = [AfterStudent(t, 1) EXCEPT
                                 ![t].attempts = 0, ![t].waits = 0,
                                 ![t].retry = 0,
                                 ![t].wrote = IF st.add THEN AddRow(@, st.tbl, st.row)
                                              ELSE @]
                   /\ tx' = tx
                   /\ pool' = pool \ {t}
    /\ UNCHANGED <<main_pc, id, tasks, run, known, abandoned, extraction>>

\* one pass of `for student in &advisor.students` for a student with an id
ScrapeStudent(t) ==
    /\ task[t].pc = "students"
    /\ LET student_id == Unwrap(task[t].advisor.students[task[t].cur].id)
       IN  task' = IF /\ has_mathematician(student_id)
                      /\ has_advisor_advisee(task[t].id, student_id)
                   THEN AfterStudent(t, task[t].cur + 1)
                   ELSE EnterGetPage(t, task[t].cur)
    /\ pool' = pool \ {t}
    /\ UNCHANGED <<db, tx, main_pc, id, tasks, run, origin, known, abandoned, extraction>>

\* `let transaction = self.db_pool.begin().await?;`: the transaction keeps a
\* connection of the pool
ScrapeBegin(t) ==
    /\ task[t].pc = "begin"
    /\ task' = [task EXCEPT ![t].pc = "ir_mathematician"]
    /\ pool' = pool \cup {t}
    /\ UNCHANGED <<db, tx, main_pc, id, tasks, run, origin, known, abandoned, extraction>>

\* any await on the database may return Err, which `?` propagates; dropping
\* an open transaction rolls it back
DbError(t) ==
    /\ task[t].pc \in DbPcs
    /\ Fail(t, IF task[t].pc \in TxPcs THEN "ingest_failed" ELSE "db_error")
    /\ UNCHANGED <<db, main_pc, id, tasks, run, origin, known, abandoned, extraction>>

----------------------------------------------------------------------------
(* insert_record: one action per statement it awaits.  A block whose       *)
(* `if let Some(..)` does not match is passed over without a step.         *)

Goto(t, pc, k) == [task EXCEPT ![t].pc = pc, ![t].k = k]

\* `for student in &advisor.students { if let Some(student_id) = student.id`
ToStudent(t, k) ==
    LET n == NextStudent(task[t].advisor.students, k)
    IN  IF n > Len(task[t].advisor.students)
        THEN Goto(t, "ir_commit", n)
        ELSE Goto(t, "ir_student", n)

\* `if let Some(school) .. { if let Some(year) = advisor.year {`
ToGradRecord(t) ==
    IF task[t].advisor.school # None /\ task[t].advisor.year # None
    THEN Goto(t, "ir_grad_school", 0)
    ELSE ToStudent(t, 1)

\* the school block without its inner `if let Some(country)`
ToSchoolLocationSkipped(t) == ToGradRecord(t)

\* `if let Some(country) = &advisor.country {` inside the school block
ToSchoolLocation(t) ==
    IF task[t].advisor.country # None
    THEN Goto(t, "ir_school_location", 0)
    ELSE ToGradRecord(t)

\* `if let Some(school) = &advisor.school {`
ToSchool(t) ==
    IF task[t].advisor.school # None
    THEN Goto(t, "ir_school", 0)
    ELSE ToGradRecord(t)

\* `if let Some(dissertation) = &advisor.dissertation {`
ToDissertation(t) ==
    IF task[t].advisor.dissertation # None
    THEN Goto(t, "ir_dissertation", 0)
    ELSE ToSchool(t)

\* `if let Some(country) = &advisor.country {`
ToCountry(t) ==
    IF task[t].advisor.country # None
    THEN Goto(t, "ir_country", 0)
    ELSE ToDissertation(t)

\* the statement insert_record awaits at the task's position
Statement(t) ==
    LET r == task[t].advisor
        student == r.students[task[t].k]
    IN  CASE task[t].pc = "ir_mathematician" ->
                insert_mathematician(t, task[t].id, r.name)
          [] task[t].pc = "ir_country" ->
                insert_country(t, Unwrap(r.country))
          [] task[t].pc = "ir_dissertation" ->
                insert_dissertation(t, Unwrap(r.dissertation), task[t].id)
          [] task[t].pc = "ir_school" ->
                insert_school(t, Unwrap(r.school))
          [] task[t].pc = "ir_school_location" ->
                insert_school_location(t, Unwrap(r.school), Unwrap(r.country))
          [] task[t].pc = "ir_grad_school" ->
                insert_school(t, Unwrap(r.school))
          [] task[t].pc = "ir_grad_record" ->
                insert_grad_record(t, task[t].id, Unwrap(r.school), Unwrap(r.year))
          [] task[t].pc = "ir_student" ->
                insert_mathematician(t, Unwrap(student.id), student.name)
          [] task[t].pc = "ir_relation" ->
                insert_adivsor_relation(t, task[t].id, Unwrap(student.id))

\* the statement of task t waits for the open transaction of task u to end
WaitsFor(t, u) ==
    /\ t # u
    /\ task[t].pc \in TxPcs \ {"ir_commit"}
    /\ \E r \in Rows(tx[u], Statement(t).tbl) :
          KeyOf(Statement(t).tbl, r) = KeyOf(Statement(t).tbl, Statement(t).row)

\* a statement executed on a pool connection, committed when it returns
ExecuteOnPool(t, st, next) ==
    /\ ~LockedByOther(t, st.tbl, st.row)
    /\ db' = IF st.add THEN AddRow(db, st.tbl, st.row) ELSE db
    /\ task' = next
    /\ UNCHANGED <<tx, main_pc, id, tasks, run, origin, known, abandoned, extraction, pool>>

\* a statement executed on the task's transaction
Execute(t, st, next) ==
    /\ ~LockedByOther(t, st.tbl, st.row)
    /\ IF st.err
       THEN Fail(t, "duplicate_key")
       ELSE /\ tx' = IF st.add THEN [tx EXCEPT ![t] = AddRow(@, st.tbl, st.row)]
                     ELSE tx
            /\ task' = next
            /\ pool' = pool
    /\ UNCHANGED <<db, main_pc, id, tasks, run, origin, known, abandoned, extraction>>

InsertRecordMathematician(t) ==
    /\ task[t].pc = "ir_mathematician"
    /\ Execute(t, Statement(t), ToCountry(t))

InsertRecordCountry(t) ==
    /\ task[t].pc = "ir_country"
    /\ Execute(t, Statement(t), ToDissertation(t))

InsertRecordDissertation(t) ==
    /\ task[t].pc = "ir_dissertation"
    /\ Execute(t, Statement(t), ToSchool(t))

InsertRecordSchool(t) ==
    /\ task[t].pc = "ir_school"
    /\ Execute(t, Statement(t), ToSchoolLocation(t))

InsertRecordSchoolLocation(t) ==
    /\ task[t].pc = "ir_school_location"
    /\ Execute(t, Statement(t), ToGradRecord(t))

\* insert_grad_record, first statement: insert_school
InsertGradRecordSchool(t) ==
    /\ task[t].pc = "ir_grad_school"
    /\ Execute(t, Statement(t), Goto(t, "ir_grad_record", 0))

\* insert_grad_record, second statement
InsertGradRecord(t) ==
    /\ task[t].pc = "ir_grad_record"
    /\ Execute(t, Statement(t), ToStudent(t, 1))

InsertRecordStudent(t) ==
    /\ task[t].pc = "ir_student"
    /\ Execute(t, Statement(t), Goto(t, "ir_relation", task[t].k))

InsertRecordRelation(t) ==
    /\ task[t].pc = "ir_relation"
    /\ Execute(t, Statement(t), ToStudent(t, task[t].k + 1))

\* `transaction.commit().await?; Ok(())`
InsertRecordCommit(t) ==
    /\ task[t].pc = "ir_commit"
    /\ db' = Merge(db, tx[t])
    /\ tx' = [tx EXCEPT ![t] = EmptyDb]
    /\ origin' = OriginAfter(t, Rows(tx[t], "mathematicians"))
    /\ task' = [Return(t, "committed") EXCEPT ![t].wrote = Merge(@, tx[t])]
    /\ pool' = pool \ {t}
    /\ UNCHANGED <<main_pc, id, tasks, run, known, abandoned, extraction>>

InsertRecord(t) ==
    \/ InsertRecordMathematician(t)
    \/ InsertRecordCountry(t)
    \/ InsertRecordDissertation(t)
    \/ InsertRecordSchool(t)
    \/ InsertRecordSchoolLocation(t)
    \/ InsertGradRecordSchool(t)
    \/ InsertGradRecord(t)
    \/ InsertRecordStudent(t)
    \/ InsertRecordRelation(t)
    \/ InsertRecordCommit(t)

Scrape(t) ==
    \/ ScrapeCheck(t)
    \/ GetPageExhausted(t)
    \/ GetPageRetry(t)
    \/ GetPageOk(t)
    \/ ScrapeInsertSelf(t)
    \/ ScrapeStudent(t)
    \/ ScrapeBegin(t)
    \/ InsertRecord(t)
    \/ DbError(t)

----------------------------------------------------------------------------
(* main *)

\* spawning without asking the database
ShouldSpawnAlways(i) == TRUE

\* `if !has_mathematician(&*scraper.db_pool, id).await?`
ShouldSpawn(i) == ~has_mathematician(i)

\* one pass of `for id in 1..=307433` up to the spawn
MainConsider ==
    /\ main_pc = "loop"
    /\ id <= MaxId
    /\ known' = IF has_mathematician(id) THEN known \cup {id} ELSE known
    /\ IF ShouldSpawn(id)
       THEN /\ task' = [task EXCEPT ![id] = [IdleTask EXCEPT !.pc = "check", !.id = id]]
            /\ main_pc' = "sleep"
            /\ UNCHANGED id
       ELSE /\ id' = id + 1
            /\ UNCHANGED <<task, main_pc>>
    /\ UNCHANGED <<db, tx, tasks, run, origin, abandoned, extraction, pool>>

\* a delay that lasts until the visit just dispatched has returned
MainSleepUntilReturn ==
    /\ main_pc = "sleep"
    /\ Finished(id)
    /\ tasks' = Append(tasks, id)
    /\ id' = id + 1
    /\ main_pc' = "loop"
    /\ UNCHANGED <<db, tx, task, run, origin, known, abandoned, extraction, pool>>

\* `sleep(sleep_duration).await; tasks.push(task);`
MainSleep ==
    /\ main_pc = "sleep"
    /\ tasks' = Append(tasks, id)
    /\ id' = id + 1
    /\ main_pc' = "loop"
    /\ UNCHANGED <<db, tx, task, run, origin, known, abandoned, extraction, pool>>

\* the range is exhausted
MainLoopEnd ==
    /\ main_pc = "loop"
    /\ id > MaxId
    /\ main_pc' = "join"
    /\ UNCHANGED <<db, tx, task, id, tasks, run, origin, known, abandoned, extraction, pool>>

\* `for task in tasks { let _ = task.await; }`
MainJoin ==
    /\ main_pc = "join"
    /\ tasks # <<>>
    /\ Finished(Head(tasks))
    /\ tasks' = Tail(tasks)
    /\ UNCHANGED <<db, tx, task, main_pc, id, run, origin, known, abandoned, extraction, pool>>

\* `Ok(())`
MainReturn ==
    /\ main_pc = "join"
    /\ tasks = <<>>
    /\ main_pc' = "done"
    /\ UNCHANGED <<db, tx, task, id, tasks, run, origin, known, abandoned, extraction, pool>>

\* an error after which main returns while the visits it spawned run on
MainDbErrorDetached ==
    /\ main_pc = "loop"
    /\ id <= MaxId
    /\ main_pc' = "aborted"
    /\ UNCHANGED <<db, tx, task, id, tasks, run, origin, known, abandoned, extraction,
                   pool>>

\* main's own `has_mathematician(..).await?` returns Err: main returns, the
\* runtime is dropped and every unfinished task is dropped with it
MainDbError ==
    /\ main_pc = "loop"
    /\ id <= MaxId
    /\ main_pc' = "aborted"
    /\ task' = [t \in Tasks |->
                  IF task[t].pc \in {"idle", "done"} THEN task[t]
                  ELSE Return(t, "cancelled")[t]]
    /\ tx' = [t \in Tasks |-> EmptyDb]
    /\ pool' = {}
    /\ UNCHANGED <<db, id, tasks, run, origin, known, abandoned, extraction>>

\* the process is started again on the same database
StartRun ==
    /\ main_pc \in {"done", "aborted"}
    /\ run < MaxRuns
    /\ run' = run + 1
    /\ main_pc' = "loop"
    /\ id' = 1
    /\ tasks' = <<>>
    /\ task' = [t \in Tasks |-> IdleTask]
    /\ known' = {}
    /\ abandoned' = abandoned \cup {task[t].id : t \in {u \in Tasks : Abandoned(u)}}
    /\ pool' = {}
    /\ UNCHANGED <<db, tx, origin, extraction>>

----------------------------------------------------------------------------

Init ==
    /\ db = EmptyDb
    /\ tx = [t \in Tasks |-> EmptyDb]
    /\ task = [t \in Tasks |-> IdleTask]
    /\ main_pc = "loop"
    /\ id = 1
    /\ tasks = <<>>
    /\ run = 1
    /\ origin = [i \in Ids |-> "absent"]
    /\ known = {}
    /\ abandoned = {}
    /\ extraction = NoExtraction
    /\ pool = {}

Next ==
    \/ MainConsider
    \/ MainSleep
    \/ MainLoopEnd
    \/ MainJoin
    \/ MainReturn
    \/ MainDbError
    \/ StartRun
    \/ \E t \in Tasks : Scrape(t)

Spec == Init /\ [][Next]_vars

----------------------------------------------------------------------------
(* The ingestion of a visit driven directly with a record: what scrape     *)
(* does from `insert_mathematician(&*self.db_pool, ..)` on when no student *)
(* page fails, for tasks started by hand instead of by main.               *)

\* lines 378 and 404: the visited node's row, committed at once, then begin
Ingest(t, i, r) ==
    /\ task[t].pc = "idle"
    /\ LET st == insert_mathematician(t, i, r.name)
       IN  /\ ~LockedByOther(t, st.tbl, st.row)
           /\ ~st.err
           /\ db' = IF st.add THEN AddRow(db, st.tbl, st.row) ELSE db
           /\ origin' = [origin EXCEPT ![i] = IF st.add THEN "self" ELSE @]
           /\ task' = [task EXCEPT ![t] =
                         [IdleTask EXCEPT !.pc = "ir_mathematician", !.id = i,
                                          !.advisor = r,
                                          !.wrote = IF st.add
                                                    THEN AddRow(@, st.tbl, st.row)
                                                    ELSE @]]
    /\ pool' = pool \cup {t}
    /\ UNCHANGED <<tx, main_pc, id, tasks, run, known, abandoned, extraction>>

Options(x) == {None, Some(x)}

\* the records of identifier i: every combination of the optional fields;
\* 1 lists student 2 twice and a student without id, 2 lists nobody
Records(i) ==
    {ScrapeRecord(<<"page", i>>,
                  IF i = 1
                  THEN <<Stub(<<"stub", 2>>, Some(2)), Stub(<<"stub", 0>>, None),
                         Stub(<<"stub", 2>>, Some(2))>>
                  ELSE <<>>,
                  d, s, c, y) :
        d \in Options("On Widgets"), s \in Options("Test University"),
        c \in Options("Testland"), y \in Options(1990)}

\* the first ingestion, of any record
IngestFirst(t) ==
    /\ \A u \in Tasks : task[u].pc = "idle"
    /\ \E i \in {1, 2} : \E r \in Records(i) : Ingest(t, i, r)

\* the same record of the same identifier is ingested again, during or
\* after an earlier ingestion of it
IngestAgain(t) ==
    \E u \in Tasks \ {t} :
        /\ task[u].pc # "idle"
        /\ Ingest(t, task[u].id, task[u].advisor)

NextIngest ==
    \E t \in Tasks :
        \/ IngestFirst(t)
        \/ IngestAgain(t)
        \/ InsertRecord(t)
        \/ DbError(t)

SpecIngest == Init /\ [][NextIngest]_vars

\* two advisors that list the same two students, in opposite orders
CoAdvisor(i) ==
    ScrapeRecord(<<"page", i>>,
                 IF i = 1
                 THEN <<Stub(<<"stub", MaxId + 1>>, Some(MaxId + 1)),
                        Stub(<<"stub", MaxId + 2>>, Some(MaxId + 2))>>
                 ELSE <<Stub(<<"stub", MaxId + 2>>, Some(MaxId + 2)),
                        Stub(<<"stub", MaxId + 1>>, Some(MaxId + 1))>>,
                 None, None, None, None)

\* the inputs concurrent ingestions are started with
Rivals == {<<1, Page(1)>>, <<2, Page(2)>>, <<1, CoAdvisor(1)>>, <<2, CoAdvisor(2)>>}

IngestRival(t) == \E input \in Rivals : Ingest(t, input[1], input[2])

NextRace ==
    \E t \in Tasks :
        \/ IngestRival(t)
        \/ InsertRecord(t)
        \/ DbError(t)

SpecRace == Init /\ [][NextRace]_vars

----------------------------------------------------------------------------
(* Properties *)

\* the rows task t committed that a reader finds in table tbl
Observable(t, tbl) == Rows(task[t].wrote, tbl) \cap Rows(db, tbl)

\* C1: atomicity of a visit.  When the ingestion of a visit fails at a step
\* of insert_record, no row written on behalf of that visit is observable in
\* storage afterwards, the Node row included.
C1_Atomicity ==
    \A t \in Tasks :
        (Finished(t) /\ task[t].outcome = "ingest_failed")
            => \A tbl \in Tables : Observable(t, tbl) = {}

\* C2: retry eligibility across runs.  After a visit of N ends Abandoned, N
\* has no Node row unless another visit stored it as a neighbor, and a later
\* run that considers N does not find it known.
C2_RetryEligible ==
    /\ \A t \in Tasks :
          (Abandoned(t) /\ origin[task[t].id] # "stub")
              => ~has_mathematician(task[t].id)
    /\ \A n \in abandoned : origin[n] # "stub" => n \notin known

\* C3: a visit that ends by fetch exhaustion or extraction failure, of the
\* visited identifier or of a neighbor, has added no row to any table.
C3_NoMutationOnFetchFailure ==
    \A t \in Tasks :
        (Finished(t) /\ task[t].outcome \in {"fetch_exhausted", "extraction_failed"})
            => task[t].wrote = EmptyDb

\* C4: a Node that entered storage only as the advisee of an edge gets its own
\* visit when main reaches its identifier: main does not pass it over as
\* known, and its visit does not return early on finding it known.
C4_NeighborGetsOwnIngestion ==
    \A m \in Tasks :
        origin[m] = "stub" => (m \notin known /\ task[m].outcome # "known")

\* the neighbor stubs of record r that carry an identifier
StubsWithId(r) == {r.students[j] : j \in {x \in 1 .. Len(r.students) : r.students[x].id # None}}

\* the rows the reference mapping gives for record r of identifier n
Expected(n, r) ==
    [mathematicians |->
        SetToBag({[id |-> n, name |-> r.name]}
                 \cup {[id |-> Unwrap(s.id), name |-> s.name] : s \in StubsWithId(r)}),
     countries |->
        IF r.country # None THEN SetToBag({Unwrap(r.country)}) ELSE EmptyBag,
     dissertations |->
        IF r.dissertation # None
        THEN SetToBag({[title |-> Unwrap(r.dissertation), author |-> n]})
        ELSE EmptyBag,
     schools |->
        IF r.school # None THEN SetToBag({Unwrap(r.school)}) ELSE EmptyBag,
     school_locations |->
        IF r.school # None /\ r.country # None
        THEN SetToBag({[school |-> Unwrap(r.school), country |-> Unwrap(r.country)]})
        ELSE EmptyBag,
     graduation_records |->
        IF r.school # None /\ r.year # None
        THEN SetToBag({[mathematician |-> n, school |-> Unwrap(r.school),
                        year |-> Unwrap(r.year)]})
        ELSE EmptyBag,
     advisor_relations |->
        SetToBag({[advisor |-> n, advisee |-> Unwrap(s.id)] : s \in StubsWithId(r)})]

\* tasks t and u ingested the same record of the same identifier
SameInput(t, u) ==
    /\ t # u
    /\ task[t].id = task[u].id
    /\ task[t].advisor = task[u].advisor

\* C5: idempotent re-run.  Once the same record of identifier N has been
\* ingested twice, storage is what one ingestion leaves: one Node row for N,
\* at most one Dissertation and one GraduationRecord for N, every
\* AdvisorRelation row once; and no ingestion was refused as a duplicate.
C5_IdempotentRerun ==
    /\ \A t \in Tasks : task[t].outcome # "duplicate_key"
    /\ \A t, u \in Tasks :
          (SameInput(t, u) /\ Committed(t) /\ Committed(u)) =>
              LET n == task[t].id IN
              /\ db = Expected(n, task[t].advisor)
              /\ CountWhere(db.mathematicians, LAMBDA r : r.id = n) = 1
              /\ CountWhere(db.dissertations, LAMBDA r : r.author = n) <= 1
              /\ CountWhere(db.graduation_records, LAMBDA r : r.mathematician = n) <= 1
              /\ \A e \in Rows(db, "advisor_relations") :
                    CopiesIn(e, db.advisor_relations) = 1

\* a record with every field was ingested twice, both times to the commit
C5_Witness ==
    \E t, u \in Tasks :
        /\ SameInput(t, u) /\ Committed(t) /\ Committed(u)
        /\ task[t].id = 1
        /\ task[t].advisor.dissertation # None
        /\ task[t].advisor.school # None
        /\ task[t].advisor.year # None

\* C6: edge uniqueness.  advisor_relations never holds two rows for one
\* (advisor, advisee) pair, and holds one for every edge of a committed
\* ingestion.
C6_EdgeUniqueness ==
    /\ \A e \in Rows(db, "advisor_relations") : CopiesIn(e, db.advisor_relations) = 1
    /\ \A t \in Tasks :
          Committed(t) =>
              \A s \in StubsWithId(task[t].advisor) :
                  CopiesIn([advisor |-> task[t].id, advisee |-> Unwrap(s.id)],
                           db.advisor_relations) = 1

\* two ingestions that insert the edge (1, 2) both committed
C6_Witness ==
    \E t, u \in Tasks :
        /\ SameInput(t, u) /\ Committed(t) /\ Committed(u)
        /\ task[t].id = 1
        /\ task[t].advisor = Page(1)

\* C7: skip-on-known.  An identifier whose node existed when main considered
\* it has no visit in that run, so no fetch of its page as a visited node.
C7_SkipOnKnown ==
    \A n \in known :
        \A t \in Tasks : task[t].id # n /\ (t = n => task[t].pc = "idle")

\* main has passed over a known identifier and gone on to the join
C7_Witness == known # {} /\ main_pc = "join"

\* C8: retry bound.  A fetch makes at most 3 transport attempts; after fewer
\* than 3 failures it attempts again, after 3 it gives up, and it never
\* gives up earlier.
C8_RetryBound ==
    \A t \in Tasks :
        /\ task[t].attempts <= 3
        /\ (task[t].pc = "get_page" /\ task[t].attempts < 3)
              => ~RetriesExhausted(task[t].retry)
        /\ (task[t].pc = "get_page" /\ task[t].attempts = 3)
              => RetriesExhausted(task[t].retry)
        /\ (Finished(t) /\ task[t].outcome = "fetch_exhausted")
              => task[t].attempts = 3

\* one fetch returned the document of its 3rd attempt and another failed
\* for good
C8_Witness ==
    /\ \E t \in Tasks : task[t].pc = "insert_self" /\ task[t].attempts = 3
    /\ \E t \in Tasks : Finished(t) /\ task[t].outcome = "fetch_exhausted"

\* C9: the reference mapping.  After the one committed ingestion of record r
\* for identifier N into the empty store, storage holds exactly the rows the
\* mapping gives for (N, r).
C9_ReferenceMapping ==
    \A t \in Tasks :
        (Committed(t) /\ \A u \in Tasks \ {t} : ~Committed(u))
            => db = Expected(task[t].id, task[t].advisor)

\* the record with every field and two stubs for student 2 was ingested once
C9_Witness ==
    \E t \in Tasks :
        /\ Committed(t) /\ \A u \in Tasks \ {t} : task[u].pc = "idle"
        /\ task[t].id = 1
        /\ task[t].advisor.country # None /\ task[t].advisor.school # None
        /\ task[t].advisor.year # None /\ task[t].advisor.dissertation # None

\* C10: the double-insert race is harmless.  No ingestion is refused as a
\* duplicate, no key is stored twice, and two ingestions never wait for each
\* other, so that both complete.
C10_DoubleInsertHarmless ==
    /\ \A t \in Tasks : task[t].outcome # "duplicate_key"
    /\ \A tbl \in Tables : \A r \in Rows(db, tbl) :
          CountWhere(db[tbl], LAMBDA x : KeyOf(tbl, x) = KeyOf(tbl, r)) = 1
    /\ \A t, u \in Tasks : ~(WaitsFor(t, u) /\ WaitsFor(u, t))

\* the visits main spawned in the current run
Dispatched == {t \in Tasks : task[t].pc # "idle"}

\* C11: failure isolation.  No error ends the run: main never returns before
\* it has considered every candidate, and no dispatched visit is cancelled.
C11_FailureIsolation ==
    /\ main_pc # "aborted"
    /\ \A t \in Tasks : task[t].outcome # "cancelled"

\* C12: run completion.  When the run has ended, every visit it dispatched
\* has returned, from its commit or from a failure of its own.
C12_RunCompletion ==
    main_pc \in {"done", "aborted"} =>
        \A t \in Dispatched :
            Finished(t) /\ task[t].outcome \in {"committed", "known"} \cup
                {"fetch_exhausted", "extraction_failed", "db_error",
                 "ingest_failed", "duplicate_key"}

\* every row of table tbl, committed or in an open transaction
AllRows(tbl) == Rows(db, tbl) \cup UNION {Rows(tx[t], tbl) : t \in Tasks}

\* C13: a neighbor stub without an identifier produces no Node row, no edge
\* and no fetch.  The student loops of scrape and insert_record never stand on
\* such a stub, every fetch is of an identifier, every Node row is the visited
\* node's or a stub's that carried its identifier, and every edge leads to a
\* stub of the advisor's page that carried its identifier.
C13_StubWithoutIdIgnored ==
    /\ \A t \in Tasks :
          /\ (task[t].pc \in {"students", "get_page"} /\ task[t].cur > 0)
                => task[t].advisor.students[task[t].cur].id # None
          /\ task[t].pc \in {"ir_student", "ir_relation"}
                => task[t].advisor.students[task[t].k].id # None
          /\ task[t].fetched \subseteq Ids
    /\ \A r \in AllRows("mathematicians") :
          /\ r.id \in Ids
          /\ r.name \in {<<"page", r.id>>, <<"stub", r.id>>}
    /\ \A e \in AllRows("advisor_relations") :
          \E s \in StubsWithId(Page(e.advisor)) : Unwrap(s.id) = e.advisee

\* the visit of 1, whose page lists a student without an identifier, has
\* fetched its neighbors and committed
C13_Witness ==
    \E t \in Tasks :
        /\ Committed(t)
        /\ \E j \in 1 .. Len(task[t].advisor.students) :
              task[t].advisor.students[j].id = None
        /\ task[t].fetched = {1, 2}
        /\ [advisor |-> 1, advisee |-> 2] \in Rows(db, "advisor_relations")

\* C14: append-only, first-write-wins storage.  No step removes or changes a
\* committed row, and the name stored for an identifier is the only name that
\* identifier ever has.
C14_AppendOnly ==
    [][/\ \A tbl \in Tables : db[tbl] \sqsubseteq db'[tbl]
       /\ \A r \in Rows(db, "mathematicians") :
             \A q \in Rows(db', "mathematicians") : q.id = r.id => q.name = r.name]_vars

\* Node 2 was first stored as the neighbor stub of 1, and the visit of 2,
\* whose page gives another name, has inserted and committed since
C14_Witness ==
    /\ origin[2] = "stub"
    /\ [id |-> 2, name |-> <<"stub", 2>>] \in Rows(db, "mathematicians")
    /\ Committed(2) /\ task[2].advisor.name # <<"stub", 2>>

----------------------------------------------------------------------------
(* parser::scrape applied to documents                                     *)

\* most rows after the header in a document's first table
MaxRows == 2

NameNode == <<Blank, "Jane", Blank, Blank, "Doe", Blank>>
TitleNode == <<Blank, "On", Blank, "Widgets">>
PhD == SpanText(<<"Ph.D.", Blank>>, None)
SchoolText == SpanText(<<"Test", Blank, "University">>, None)
YearText == SpanText(<<Blank, "1990">>, Some(1990))

H2s == {None, Some(<<>>), Some(<<NameNode>>)}

Theses == {None, Some(<<>>), Some(<<<<Blank>>>>), Some(<<TitleNode>>)}

Header == Row(TRUE, FALSE, FALSE, None)

StudentRows ==
    {Row(FALSE, FALSE, FALSE, None), Row(TRUE, FALSE, FALSE, None),
     Row(TRUE, TRUE, FALSE, None), Row(TRUE, TRUE, TRUE, None),
     Row(TRUE, TRUE, TRUE, Some(2))}

StudentTables ==
    {None, Some(<<>>)} \cup
    {Some(<<Header>> \o rows) : rows \in UNION {[1 .. n -> StudentRows] : n \in 0 .. MaxRows}}

Spans ==
    {None, Some(<<>>), Some(<<PhD>>), Some(<<PhD, SchoolText>>),
     Some(<<PhD, SchoolText, YearText>>), Some(<<YearText, PhD, SchoolText>>),
     Some(<<SchoolText, YearText>>)}

Imgs == {None, Some(None), Some(Some("Testland"))}

Documents ==
    {Html(h2, thesis, table, span, img) :
        h2 \in H2s, thesis \in Theses, table \in StudentTables,
        span \in Spans, img \in Imgs}

\* parser::scrape is applied to one document
Extract ==
    /\ extraction.result.kind = "none"
    /\ \E page \in Documents :
          extraction' = [page |-> page, result |-> scrape(page)]
    /\ UNCHANGED <<db, tx, task, main_pc, id, tasks, run, origin, known, abandoned, pool>>

NextExtract == Extract

SpecExtract == Init /\ [][NextExtract]_vars

\* the document has a name field: an h2 with a text node
HasName(page) == page.h2 # None /\ Unwrap(page.h2) # <<>>

\* C15: extraction tolerates partial documents.  parser::scrape fails exactly
\* on the documents without a name, and a document without a dissertation,
\* without a school or without a year yields a record with that field absent.
C15_ExtractionTolerant ==
    extraction.result.kind # "none" =>
        /\ extraction.result.kind # "ok" <=> ~HasName(extraction.page)
        /\ extraction.result.kind = "ok" =>
              /\ extraction.page.thesis = None
                    => extraction.result.value.dissertation = None
              /\ extraction.page.span = None
                    => extraction.result.value.graduation_record = None

\* a Node row for m, and the edge (n, m), are committed
NodeStored(m) == \E r \in Rows(db, "mathematicians") : r.id = m
EdgeStored(n, m) == [advisor |-> n, advisee |-> m] \in Rows(db, "advisor_relations")

\* C16: neighbor skip condition.  When the visit of N decides about its
\* neighbor M, it goes on to fetch M's page unless both the Node M and the
\* edge (N, M) are stored at that moment, and passes M over only then.
C16_NeighborSkipCondition ==
    [][\A t \in Tasks :
          (task[t].pc = "students" /\ task'[t].pc \notin {"students", "done", "idle"}) =>
              LET m == Unwrap(task[t].advisor.students[task[t].cur].id)
                  fetches == task'[t].pc = "get_page" /\ task'[t].cur = task[t].cur
              IN  fetches <=> ~(NodeStored(m) /\ EdgeStored(task[t].id, m))]_vars

\* the visit of 1 is fetching the page of its neighbor 2 although Node 2 is
\* stored, the edge (1, 2) not being stored
C16_Witness ==
    \E t \in Tasks :
        /\ task[t].pc = "get_page" /\ task[t].cur > 0
        /\ NodeStored(Target(t))
        /\ ~EdgeStored(task[t].id, Target(t))

\* the identifiers one hop from n: n and the neighbors its page lists
OneHop(n) == {n} \cup {Unwrap(s.id) : s \in StubsWithId(Page(n))}

\* C17: one-hop expansion.  A visit of N fetches, and inserts Node rows and
\* edges for, no identifier but N and the neighbors N's page lists; the
\* neighbors of a neighbor are neither fetched nor inserted by it.
C17_OneHopExpansion ==
    \A t \in Tasks :
        task[t].pc # "idle" =>
            /\ task[t].fetched \subseteq OneHop(task[t].id)
            /\ task[t].pc = "get_page" => Target(t) \in OneHop(task[t].id)
            /\ \A r \in Rows(tx[t], "mathematicians") \cup Rows(task[t].wrote, "mathematicians") :
                  r.id \in OneHop(task[t].id)
            /\ \A e \in Rows(tx[t], "advisor_relations")
                          \cup Rows(task[t].wrote, "advisor_relations") :
                  e.advisor = task[t].id /\ e.advisee \in OneHop(task[t].id) \ {task[t].id}

\* the visit of 1 fetched its neighbor 2, whose page lists 3, and committed
\* with nothing of 3 in storage
C17_Witness ==
    /\ Committed(1) /\ 2 \in task[1].fetched
    /\ \E s \in StubsWithId(Page(2)) : Unwrap(s.id) = 3
    /\ ~NodeStored(3)

\* C18: every kind of transport-level failure is a failed attempt.  No
\* timeout, connection error or answer with a non-success status is what a
\* fetch returned as its document.
C18_TransportFailuresRetried ==
    \A t \in Tasks :
        task[t].response \notin {"timeout", "connection_error", "status_error"}

\* C19: backoff waits happen only between attempts.  A fetch that has made n
\* attempts has waited fewer than n times, and an exhausted fetch has waited
\* exactly twice.
C19_BackoffBetweenAttempts ==
    \A t \in Tasks :
        /\ task[t].pc = "insert_self" => task[t].waits = task[t].attempts - 1
        /\ (Finished(t) /\ task[t].outcome = "fetch_exhausted") => task[t].waits = 2

\* the visits whose handle main has pushed
Pushed == {tasks[j] : j \in 1 .. Len(tasks)}

\* the visits that are running
InFlight == {t \in Tasks : task[t].pc \notin {"idle", "done"}}

ReferentiallyIntact(d) ==
    LET nodes == {r.id : r \in Rows(d, "mathematicians")}
    IN  /\ \A e \in Rows(d, "advisor_relations") :
              e.advisor \in nodes /\ e.advisee \in nodes
        /\ \A x \in Rows(d, "dissertations") : x.author \in nodes
        /\ \A g \in Rows(d, "graduation_records") :
              g.mathematician \in nodes /\ g.school \in Rows(d, "schools")
        /\ \A l \in Rows(d, "school_locations") :
              l.school \in Rows(d, "schools") /\ l.country \in Rows(d, "countries")

\* C21: referential integrity.  In every state, under every interleaving of
\* the visits, the committed rows a reader finds are referentially intact,
\* and so is what each visit sees through its own open transaction.
C21_ReferentialIntegrity ==
    /\ ReferentiallyIntact(db)
    /\ \A t \in Tasks : ReferentiallyIntact(Merge(db, tx[t]))

\* the visit of 1 has committed an edge, a dissertation, a graduation record
\* and a school location while the visit of 2 has rows of its own in an open
\* transaction
C21_Witness ==
    /\ Committed(1)
    /\ \A tbl \in {"advisor_relations", "dissertations", "graduation_records",
                   "school_locations"} : Rows(db, tbl) # {}
    /\ task[2].pc \in TxPcs /\ tx[2] # EmptyDb

\* storage holds an entity attached to n by the visit of n: a dissertation,
\* a graduation record or an outgoing edge
HoldsAttached(n) ==
    \/ \E x \in Rows(db, "dissertations") : x.author = n
    \/ \E g \in Rows(db, "graduation_records") : g.mathematician = n
    \/ \E e \in Rows(db, "advisor_relations") : e.advisor = n

\* storage holds every row that record r of n implies; a Node is found by
\* its identifier, under whatever name it was first stored
HoldsAll(n, r) ==
    /\ \A m \in Rows(Expected(n, r), "mathematicians") : NodeStored(m.id)
    /\ \A tbl \in Tables \ {"mathematicians"} :
          Rows(Expected(n, r), tbl) \subseteq Rows(db, tbl)

\* C22: attached entities are committed as a unit.  In every state, if the
\* committed store holds a dissertation, a graduation record or an outgoing
\* edge of N, it holds every row N's record implies: the country, school,
\* school location, graduation record, dissertation, every neighbor Node and
\* every edge.  A reader never finds a proper non-empty part of them.
C22_AttachedCommittedAsUnit ==
    \A n \in Tasks : HoldsAttached(n) => HoldsAll(n, Page(n))

\* the visit of 1 has committed its record, and the visit of 2 has failed
\* inside its transaction and left no attached entity of 2
C22_Witness ==
    /\ Committed(1) /\ HoldsAttached(1)
    /\ Finished(2) /\ task[2].outcome = "ingest_failed" /\ ~HoldsAttached(2)

----------------------------------------------------------------------------
(* The connection pool of main, `PgPoolOptions::new().max_connections(12)`, *)
(* with fewer connections than visits.  A statement given `&*self.db_pool` *)
(* takes a connection, runs on it and gives it back; `begin()` takes one    *)
(* that the transaction keeps until it is committed or dropped.            *)

\* the cap of the pool (12 in the source)
PoolCap == 1

\* the positions at which scrape awaits a statement given `&*self.db_pool`
StatementPcs == {"check", "insert_self", "students"}

\* a pool that hands out connections without end
HasFreeConnectionAlways == TRUE

\* fewer than max_connections connections are taken
HasFreeConnection == Cardinality(pool) < PoolCap

\* the visit is at an await that needs a connection it does not have
NeedsConnection(t) == task[t].pc \in StatementPcs \cup {"begin"} /\ t \notin pool

\* the statement's acquire
PoolAcquire(t) ==
    /\ task[t].pc \in StatementPcs
    /\ t \notin pool
    /\ HasFreeConnection
    /\ pool' = pool \cup {t}
    /\ UNCHANGED <<db, tx, task, main_pc, id, tasks, run, origin, known, abandoned,
                   extraction>>

\* the statement runs on the connection it took and gives it back
PoolStatement(t) ==
    /\ t \in pool
    /\ \/ ScrapeCheck(t)
       \/ ScrapeInsertSelf(t)
       \/ ScrapeStudent(t)

\* `self.db_pool.begin()` waits for a connection
PoolBegin(t) == HasFreeConnection /\ ScrapeBegin(t)

\* main's has_mathematician takes a connection for its SELECT
PoolMainConsider == HasFreeConnection /\ MainConsider

\* the steps of a visit that wait for no connection
Proceed(t) ==
    \/ PoolStatement(t)
    \/ GetPageExhausted(t)
    \/ GetPageRetry(t)
    \/ GetPageOk(t)
    \/ InsertRecord(t)

NextPool ==
    \/ PoolMainConsider
    \/ MainSleep
    \/ MainLoopEnd
    \/ MainJoin
    \/ MainReturn
    \/ MainDbError
    \/ \E t \in Tasks :
          \/ PoolAcquire(t)
          \/ PoolBegin(t)
          \/ Proceed(t)
          \/ DbError(t)

\* the runtime runs a task that can proceed, a statement and a fetch return,
\* and the pool gives a connection that stays free to a task that waits for
\* one; no error has to happen
SpecPool ==
    /\ Init /\ [][NextPool]_vars
    /\ \A t \in Tasks :
          /\ WF_vars(Proceed(t))
          /\ WF_vars(PoolAcquire(t))
          /\ WF_vars(PoolBegin(t))

\* the cap holds; a visit holds no connection during a fetch or a backoff
\* wait, none when it asks for its transaction's, none once it has returned;
\* and inside its transaction it holds the one every statement runs on
PoolInvariant ==
    /\ Cardinality(pool) <= PoolCap
    /\ \A t \in Tasks :
          /\ task[t].pc = "get_page" => t \notin pool
          /\ task[t].pc \in {"begin", "idle", "done"} => t \notin pool
          /\ task[t].pc \in TxPcs => t \in pool

\* C23: connection pool safety and progress.  The connections held never
\* exceed the cap, no visit holds a connection while it waits for another or
\* across a fetch or backoff wait, and with more visits in flight than
\* connections every visit that waits for a connection gets one, unless an
\* error ends the visit first.
C23_PoolSafetyAndProgress ==
    /\ []PoolInvariant
    /\ \A t \in Tasks : NeedsConnection(t) ~> (t \in pool \/ Finished(t))

\* more visits are in flight than the pool has connections: one is inside its
\* transaction and another waits for a connection to begin its own
C23_Witness ==
    /\ Cardinality(InFlight) > PoolCap
    /\ Cardinality(pool) = PoolCap
    /\ \E t \in Tasks : task[t].pc \in TxPcs /\ tx[t] # EmptyDb
    /\ \E t \in Tasks : task[t].pc = "begin" /\ NeedsConnection(t)

\* C24: an error of main's own has_mathematician ends the run at once.  Once
\* it has happened, the candidate it was about and every later one are
\* undispatched and cannot be considered, no visit runs on, and no handle
\* has been or can be awaited.
C24_SchedulerErrorEndsRun ==
    main_pc = "aborted" =>
        /\ id <= MaxId
        /\ \A t \in Tasks : t >= id => task[t].pc = "idle"
        /\ InFlight = {}
        /\ Dispatched = Pushed
        /\ ~ENABLED MainConsider /\ ~ENABLED MainSleep
        /\ ~ENABLED MainJoin /\ ~ENABLED MainReturn

\* main's check of candidate 2 failed while the visit of 1 was running: the
\* visit was dropped unfinished, its handle is still in main's vector and 2
\* was never dispatched
C24_Witness ==
    /\ main_pc = "aborted" /\ id = 2
    /\ task[1].outcome = "cancelled"
    /\ tasks = <<1>>
    /\ task[2].pc = "idle"

====
